---- MODULE Spec2Model ----
(***************************************************************************)
(* collect-regional-kinetics (src/src/main.rs): for every motif occurrence *)
(* the window of per-base kinetics around it is expanded into Coordinate   *)
(* Keys, every key is looked up in the kinetics table (CSV row map or      *)
(* HDF5 columnar arrays) and one labelled output row is written per key.   *)
(*                                                                         *)
(* Signed 64-bit integers are modelled at a reduced width of WordBits      *)
(* bits: every i64 value of the program lies in MinI64..MaxI64 and the     *)
(* unchecked operators wrap modulo 2^WordBits.                             *)
(***************************************************************************)
EXTENDS Integers, Sequences, FiniteSets, TLC

VARIABLES
    build,          \* "debug" (overflow checks, debug assertions) or "release"
    backend,        \* "csv" (--kinetics) or "hdf5" (--kinetics-hdf5)
    occ_width,      \* Args.occ_width
    occ_extension,  \* Args.extend
    pc,             \* position of main / collect_*_in_merged_occ
    kinetics,       \* the kinetics table loaded from the CSV or the HDF5 file
    pending,        \* the occurrence record read from the reader and not yet processed
    target_keys,    \* the expanded keys of the pending occurrence, once expanded
    i,              \* number of occurrence records processed so far (enumerate index)
    occs_read,      \* the occurrence records processed so far, in input order
    file_created,   \* whether the output file has been created
    output,         \* the lines serialised to the output file so far
    result,         \* how the run ended: "running", "Ok", "RegionOverflow" or a panic
    ext,            \* state of one application of extend / extend_without_strand
    lk              \* state of one kinetics lookup through both backends

vars == <<build, backend, occ_width, occ_extension, pc, kinetics, pending,
          target_keys, i, occs_read, file_created, output, result, ext, lk>>

pipeline_vars == <<backend, occ_width, occ_extension, pc, kinetics, pending,
                   target_keys, i, occs_read, file_created, output, result>>

----------------------------------------------------------------------------
(* Bounds of the model *)

WordBits == 8       \* width the i64 of the program is scaled to
MaxOccs == 2        \* occurrence records read in one run
MaxWidth == 2       \* largest ordinary window width
MaxExt == 1         \* largest ordinary extension
MaxUp == 2          \* largest up / down handed to extend directly
MaxTpl == 3         \* positions 1..MaxTpl of chr1 are stored in the kinetics tables

----------------------------------------------------------------------------
(* i64 arithmetic *)

MinI64 == -(2 ^ (WordBits - 1))
MaxI64 == 2 ^ (WordBits - 1) - 1
InI64(x) == MinI64 <= x /\ x <= MaxI64
Wrap(x) == ((x - MinI64) % (2 ^ WordBits)) + MinI64

None == <<>>
Some(x) == <<x>>
IsSome(o) == o # <<>>
Unwrap(o) == o[1]

\* i64::checked_sub / checked_add / checked_mul: None on overflow
checked_sub(a, b) == IF InI64(a - b) THEN Some(a - b) ELSE None
checked_add(a, b) == IF InI64(a + b) THEN Some(a + b) ELSE None
checked_mul(a, b) == IF InI64(a * b) THEN Some(a * b) ELSE None

\* The plain operators + - *: exact when the result fits; on overflow a debug
\* build panics (None) and a release build wraps.
Unchecked(x) ==
    IF InI64(x) THEN Some(x)
    ELSE IF build = "release" THEN Some(Wrap(x))
    ELSE None

----------------------------------------------------------------------------
(* IpdSummaryKey *)

IpdSummaryKey(refName, tpl, strand) ==
    [refName |-> refName, tpl |-> tpl, strand |-> strand]

Reverse(s) == [j \in 1..Len(s) |-> s[Len(s) + 1 - j]]

\* Mutant: the key of strand 1 comes before the key of strand 0.
RangeKeys_minus_first(refName, left, right) ==
    LET n == IF right >= left THEN right - left + 1 ELSE 0
    IN  [j \in 1..(2 * n) |->
            IpdSummaryKey(refName, left + ((j - 1) \div 2), 1 - ((j - 1) % 2))]

\* (left..=right).flat_map(|p| [new(p, 0), new(p, 1)])
RangeKeys(refName, left, right) ==
    LET n == IF right >= left THEN right - left + 1 ELSE 0
    IN  [j \in 1..(2 * n) |->
            IpdSummaryKey(refName, left + ((j - 1) \div 2), (j - 1) % 2)]

Keys(ks) == [ok |-> TRUE, msg |-> <<>>, keys |-> ks]
Panic(m) == [ok |-> FALSE, msg |-> m, keys |-> <<>>]
OverflowPanic(tpl, len) == Panic(<<"Target position overflowed", tpl, len>>)

\* Mutant: the minus strand does not swap up and down.
extend_noswap(key, up, down) ==
    IF key.strand \notin {0, 1} THEN Panic(<<"Unexpected strand", key.strand>>)
    ELSE LET l == checked_sub(key.tpl, up)
             r == checked_add(key.tpl, down)
         IN  IF ~IsSome(l) THEN OverflowPanic(key.tpl, up)
             ELSE IF ~IsSome(r) THEN OverflowPanic(key.tpl, down)
             ELSE LET ks == RangeKeys(key.refName, Unwrap(l), Unwrap(r))
                  IN  Keys(IF key.strand = 0 THEN ks ELSE Reverse(ks))

\* IpdSummaryKey::extend
extend(key, up, down) ==
    IF key.strand \notin {0, 1} THEN Panic(<<"Unexpected strand", key.strand>>)
    ELSE LET sub == IF key.strand = 0 THEN up ELSE down
             add == IF key.strand = 0 THEN down ELSE up
             position_left == checked_sub(key.tpl, sub)
             position_right == checked_add(key.tpl, add)
         IN  IF ~IsSome(position_left) THEN OverflowPanic(key.tpl, sub)
             ELSE IF ~IsSome(position_right) THEN OverflowPanic(key.tpl, add)
             ELSE LET ks == RangeKeys(key.refName, Unwrap(position_left),
                                      Unwrap(position_right))
                  IN  Keys(IF key.strand = 0 THEN ks ELSE Reverse(ks))

\* Mutant: the range excludes its right end (left..right instead of left..=right).
extend_without_strand_exclusive(key, up, down) ==
    LET l == checked_sub(key.tpl, up)
        r == checked_add(key.tpl, down)
    IN  IF ~IsSome(l) THEN OverflowPanic(key.tpl, up)
        ELSE IF ~IsSome(r) THEN OverflowPanic(key.tpl, down)
        ELSE Keys(RangeKeys(key.refName, Unwrap(l), Unwrap(r) - 1))

\* IpdSummaryKey::extend_without_strand
extend_without_strand(key, up, down) ==
    LET position_left == checked_sub(key.tpl, up)
        position_right == checked_add(key.tpl, down)
    IN  IF ~IsSome(position_left) THEN OverflowPanic(key.tpl, up)
        ELSE IF ~IsSome(position_right) THEN OverflowPanic(key.tpl, down)
        ELSE Keys(RangeKeys(key.refName, Unwrap(position_left),
                            Unwrap(position_right)))

----------------------------------------------------------------------------
(* Kinetics records *)

\* f32 values are carried as their text; they are only copied and tested by
\* is_finite, never computed with.
is_finite(x) == x \notin {"NaN", "inf", "-inf"}

Digit(d) ==
    CASE d = 0 -> "0" [] d = 1 -> "1" [] d = 2 -> "2" [] d = 3 -> "3"
      [] d = 4 -> "4" [] d = 5 -> "5" [] d = 6 -> "6" [] d = 7 -> "7"
      [] d = 8 -> "8" [] OTHER -> "9"

RECURSIVE NatToString(_)
NatToString(n) ==
    IF n < 10 THEN Digit(n) ELSE NatToString(n \div 10) \o Digit(n % 10)

\* Display of an i64 (format!("{}", n))
I64ToString(n) == IF n < 0 THEN "-" \o NatToString(-n) ELSE NatToString(n)

\* IpdSummaryValue::default()
IpdSummaryValueDefault ==
    [base |-> None, score |-> 0, tMean |-> "0", tErr |-> "0",
     modelPrediction |-> "0", ipdRatio |-> "0", coverage |-> 0,
     frac |-> None, fracLow |-> None, fracUp |-> None]

\* struct IpdSummary: one row of the kinetics CSV
IpdSummary(refName, tpl, strand, value) ==
    [refName |-> refName, tpl |-> tpl, strand |-> strand, value |-> value]

\* IpdSummary::into_pair
into_pair(row) ==
    <<IpdSummaryKey(row.refName, row.tpl, row.strand), row.value>>

\* rows.map(into_pair).collect::<HashMap<_,_>>(): of several rows with one key
\* the last one is kept
CollectKinetics(rows) ==
    LET pairs == [n \in 1..Len(rows) |-> into_pair(rows[n])]
        Last(k) == CHOOSE n \in 1..Len(rows) :
                      /\ pairs[n][1] = k
                      /\ \A m \in 1..Len(rows) : pairs[m][1] = k => m <= n
    IN  [k \in {pairs[n][1] : n \in 1..Len(rows)} |-> pairs[Last(k)][2]]

\* kinetics.get(&key).unwrap_or(&default_ipd_summary_value)
CsvLookup(map, key) ==
    IF key \in DOMAIN map THEN map[key] ELSE IpdSummaryValueDefault

Found(v) == [ok |-> TRUE, msg |-> <<>>, val |-> v]
LookupPanic(m) == [ok |-> FALSE, msg |-> m, val |-> IpdSummaryValueDefault]

\* ChrKineticsHdf5::default(): every array empty
ChrKineticsHdf5Default ==
    [tpl |-> <<>>, strand |-> <<>>, base |-> <<>>, score |-> <<>>, tMean |-> <<>>,
     tErr |-> <<>>, modelPrediction |-> <<>>, ipdRatio |-> <<>>, coverage |-> <<>>,
     frac |-> <<>>, fracLow |-> <<>>, fracUp |-> <<>>]

\* ChrKineticsHdf5::get_ipd_summary_value (usize is as wide as i64, so try_into
\* succeeds on every non-negative pre_index)
get_ipd_summary_value(chr, key) ==
    LET a == Unchecked(key.tpl - 1)
        b == IF IsSome(a) THEN Unchecked(Unwrap(a) * 2) ELSE None
        pre_index == IF IsSome(b) THEN Unchecked(Unwrap(b) + key.strand) ELSE None
    IN  IF ~IsSome(pre_index) THEN LookupPanic(<<"arithmetic overflow", key.tpl>>)
        ELSE LET index == Unwrap(pre_index)
                 at == index + 1
             IN  IF index >= 0 /\ index < Len(chr.coverage) /\ chr.coverage[at] > 0
                 THEN IF build = "debug"
                         /\ (chr.tpl[at] # key.tpl \/ chr.strand[at] # key.strand)
                      THEN LookupPanic(<<"debug_assert_eq", key.tpl>>)
                      ELSE LET has_frac == is_finite(chr.frac[at])
                           IN  Found(
                                 [base |-> IF chr.base[at] = "" THEN None
                                           ELSE Some(chr.base[at]),
                                  score |-> chr.score[at],
                                  tMean |-> chr.tMean[at],
                                  tErr |-> chr.tErr[at],
                                  modelPrediction |-> chr.modelPrediction[at],
                                  ipdRatio |-> chr.ipdRatio[at],
                                  coverage |-> chr.coverage[at],
                                  frac |-> IF has_frac THEN Some(chr.frac[at]) ELSE None,
                                  fracLow |-> IF has_frac THEN Some(chr.fracLow[at])
                                              ELSE None,
                                  fracUp |-> IF has_frac THEN Some(chr.fracUp[at])
                                             ELSE None])
                 ELSE Found(IpdSummaryValueDefault)

\* kinetics_datasets.get(&refName).unwrap_or(&default_chr_kinetics)
ChrKinetics(datasets, refName) ==
    IF refName \in DOMAIN datasets THEN datasets[refName] ELSE ChrKineticsHdf5Default

Hdf5Lookup(datasets, key) ==
    get_ipd_summary_value(ChrKinetics(datasets, key.refName), key)

----------------------------------------------------------------------------
(* The kinetics data of the runs: positions 1..MaxTpl of chr1 on both strands *)

F32Text(n) == I64ToString(n) \o ".5"

\* The record ipdSummary reports at a covered position
Measured(tpl, strand, with_frac) ==
    [base |-> Some(IF strand = 0 THEN "A" ELSE "T"),
     score |-> 10 * tpl + strand,
     tMean |-> F32Text(tpl + strand),
     tErr |-> F32Text(strand),
     modelPrediction |-> F32Text(tpl),
     ipdRatio |-> F32Text(1),
     coverage |-> tpl + 4,
     frac |-> IF with_frac THEN Some("0.25") ELSE None,
     fracLow |-> IF with_frac THEN Some("0.125") ELSE None,
     fracUp |-> IF with_frac THEN Some("0.75") ELSE None]

\* A table in which (chr1, 2, +) is missing and (chr1, 2, -) is present only
\* when zero_cov_row is set: then it is a row whose coverage is zero.
KineticsRows(zero_cov_row) ==
    LET slots == [n \in 1..(2 * MaxTpl) |-> <<((n - 1) \div 2) + 1, (n - 1) % 2>>]
        RowOf(s) ==
            IF s = <<2, 1>>
            THEN IpdSummary("chr1", 2, 1, [Measured(2, 1, FALSE) EXCEPT !.coverage = 0])
            ELSE IpdSummary("chr1", s[1], s[2], Measured(s[1], s[2], s[2] = 0))
        kept == SelectSeq(slots, LAMBDA s : s # <<2, 0>> /\ (s # <<2, 1>> \/ zero_cov_row))
    IN  [n \in 1..Len(kept) |-> RowOf(kept[n])]

\* The HDF5 file holding the same data: per chromosome, parallel arrays indexed
\* by (tpl - 1) * 2 + strand; a slot with no row is zero with a NaN frac.
EquivalentHdf5(rows) ==
    LET RowAt(c, n) ==
            LET k == IpdSummaryKey(c, ((n - 1) \div 2) + 1, (n - 1) % 2)
                hits == {m \in 1..Len(rows) : into_pair(rows[m])[1] = k}
            IN  IF hits = {} THEN None ELSE Some(rows[CHOOSE m \in hits : TRUE])
        Size(c) == 2 * MaxTpl
        Col(c, f(_), absent) ==
            [n \in 1..Size(c) |->
                IF IsSome(RowAt(c, n)) THEN f(Unwrap(RowAt(c, n))) ELSE absent]
        Opt(o, absent) == IF IsSome(o) THEN Unwrap(o) ELSE absent
    IN  [c \in {rows[m].refName : m \in 1..Len(rows)} |->
            [tpl |-> Col(c, LAMBDA r : r.tpl, 0),
             strand |-> Col(c, LAMBDA r : r.strand, 0),
             base |-> Col(c, LAMBDA r : Opt(r.value.base, ""), ""),
             score |-> Col(c, LAMBDA r : r.value.score, 0),
             tMean |-> Col(c, LAMBDA r : r.value.tMean, "0"),
             tErr |-> Col(c, LAMBDA r : r.value.tErr, "0"),
             modelPrediction |-> Col(c, LAMBDA r : r.value.modelPrediction, "0"),
             ipdRatio |-> Col(c, LAMBDA r : r.value.ipdRatio, "0"),
             coverage |-> Col(c, LAMBDA r : r.value.coverage, 0),
             frac |-> Col(c, LAMBDA r : Opt(r.value.frac, "NaN"), "NaN"),
             fracLow |-> Col(c, LAMBDA r : Opt(r.value.fracLow, "NaN"), "NaN"),
             fracUp |-> Col(c, LAMBDA r : Opt(r.value.fracUp, "NaN"), "NaN")]]

----------------------------------------------------------------------------
(* Occurrence records and output rows *)

\* struct MergedOcc: chromosome, 0-based left-most start, strand character
MergedOcc(refName, start, strand) ==
    [refName |-> refName, start |-> start, strand |-> strand]

KeyOk(k) == [ok |-> TRUE, msg |-> <<>>, key |-> k]
KeyPanic(m) == [ok |-> FALSE, msg |-> m, key |-> IpdSummaryKey("", 0, 0)]

\* impl From<MergedOcc> for IpdSummaryKey
FromMergedOcc(occ) ==
    LET tpl == Unchecked(occ.start + 1)
    IN  IF ~IsSome(tpl) THEN KeyPanic(<<"arithmetic overflow", occ.start>>)
        ELSE IF occ.strand = "+" THEN KeyOk(IpdSummaryKey(occ.refName, Unwrap(tpl), 0))
        ELSE IF occ.strand = "-" THEN KeyOk(IpdSummaryKey(occ.refName, Unwrap(tpl), 1))
        ELSE KeyPanic(<<"Unexpected strand char", occ.strand>>)

TextOk(t) == [ok |-> TRUE, msg |-> <<>>, text |-> t]
TextPanic(m) == [ok |-> FALSE, msg |-> m, text |-> ""]

\* The first match arm of create_label / create_region that takes `position`:
\* "small", "s", "m", "e", "large", or "overflow" when a guard's arithmetic
\* panics. The guards are evaluated in order, each only when the ones before fail.
MatchPart(position, region_width, region_extension) ==
    LET ew == Unchecked(region_extension + region_width)
        e2 == Unchecked(2 * region_extension)
        e2w == IF IsSome(e2) THEN Unchecked(Unwrap(e2) + region_width) ELSE None
    IN  IF position <= 0 THEN "small"
        ELSE IF position <= region_extension THEN "s"
        ELSE IF ~IsSome(ew) THEN "overflow"
        ELSE IF position <= Unwrap(ew) THEN "m"
        ELSE IF ~IsSome(e2w) THEN "overflow"
        ELSE IF position <= Unwrap(e2w) THEN "e"
        ELSE "large"

\* Mutant: the target region ends one position early (< instead of <=).
create_label_strict(position, region_width, region_extension, strand) ==
    LET part == IF position <= 0 THEN "small"
                ELSE IF position <= region_extension THEN "s"
                ELSE IF position < region_extension + region_width THEN "m"
                ELSE IF position <= 2 * region_extension + region_width THEN "e"
                ELSE "large"
        relative_position ==
            CASE part = "s" -> position
              [] part = "m" -> position - region_extension
              [] OTHER -> position - region_extension - region_width
    IN  IF part \in {"small", "large"} THEN TextPanic(<<"Position", position>>)
        ELSE TextOk(part \o I64ToString(relative_position)
                         \o (IF strand = "+" THEN "p" ELSE "m"))

\* TargetIpd::create_label
create_label(position, region_width, region_extension, strand) ==
    LET part == MatchPart(position, region_width, region_extension)
        relative_position ==
            CASE part = "s" -> Some(position)
              [] part = "m" -> Unchecked(position - region_extension)
              [] OTHER ->
                   LET d == Unchecked(position - region_extension)
                   IN  IF IsSome(d) THEN Unchecked(Unwrap(d) - region_width) ELSE None
    IN  IF part = "small" THEN TextPanic(<<"Position is smaller than 1", position>>)
        ELSE IF part = "large"
        THEN TextPanic(<<"Position is larger than the target region length", position>>)
        ELSE IF part = "overflow" \/ ~IsSome(relative_position)
        THEN TextPanic(<<"arithmetic overflow", position>>)
        ELSE IF strand \notin {"+", "-"} THEN TextPanic(<<"Unknown strand", strand>>)
        ELSE TextOk(part \o I64ToString(Unwrap(relative_position))
                         \o (IF strand = "+" THEN "p" ELSE "m"))

\* Mutant: the upstream part is one position longer than in create_label.
create_region_shifted(position, region_width, region_extension) ==
    IF position <= 0 THEN TextPanic(<<"Position is smaller than 1", position>>)
    ELSE IF position <= region_extension + 1 THEN TextOk("Upstream")
    ELSE IF position <= region_extension + region_width THEN TextOk("Target")
    ELSE IF position <= 2 * region_extension + region_width THEN TextOk("Downstream")
    ELSE TextPanic(<<"Position is larger than the target region length", position>>)

\* TargetIpdRich::create_region
create_region(position, region_width, region_extension) ==
    LET part == MatchPart(position, region_width, region_extension)
    IN  CASE part = "small" -> TextPanic(<<"Position is smaller than 1", position>>)
          [] part = "s" -> TextOk("Upstream")
          [] part = "m" -> TextOk("Target")
          [] part = "e" -> TextOk("Downstream")
          [] part = "overflow" -> TextPanic(<<"arithmetic overflow", position>>)
          [] OTHER ->
               TextPanic(<<"Position is larger than the target region length", position>>)

\* TargetIpdRich::HEADER
HEADER ==
    <<"position", "strand", "value", "label", "src", "base", "score", "tErr",
      "modelPrediction", "ipdRatio", "coverage", "ref_chr", "ref_position",
      "ref_strand", "region">>

\* struct TargetIpdRich, with a placeholder for the fields of a row not built
NoRow ==
    [position |-> 0, strand |-> "", value |-> "", label |-> "", src |-> 0,
     base |-> None, score |-> 0, tErr |-> "", modelPrediction |-> "",
     ipdRatio |-> "", coverage |-> 0, ref_chr |-> "", ref_position |-> 0,
     ref_strand |-> 0, region |-> ""]

RowOk(r) == [ok |-> TRUE, msg |-> <<>>, row |-> r]
RowPanic(m) == [ok |-> FALSE, msg |-> m, row |-> NoRow]

\* TargetIpdRich::new
TargetIpdRichNew(position, strand, src, region_width, region_extension, key, values) ==
    LET label == create_label(position, region_width, region_extension, strand)
        region == create_region(position, region_width, region_extension)
    IN  IF ~label.ok THEN RowPanic(label.msg)
        ELSE IF ~region.ok THEN RowPanic(region.msg)
        ELSE RowOk([position |-> position, strand |-> strand, value |-> values.tMean,
                    label |-> label.text, src |-> src, base |-> values.base,
                    score |-> values.score, tErr |-> values.tErr,
                    modelPrediction |-> values.modelPrediction,
                    ipdRatio |-> values.ipdRatio, coverage |-> values.coverage,
                    ref_chr |-> key.refName, ref_position |-> key.tpl,
                    ref_strand |-> key.strand, region |-> region.text])

\* A line of the output file: the header line or a serialised TargetIpdRich
HeaderLine(cols) == [kind |-> "header", cols |-> cols, row |-> NoRow]
RowLine(r) == [kind |-> "row", cols |-> <<>>, row |-> r]

----------------------------------------------------------------------------
(* The run: main and collect_ipd_summary_in_merged_occ /                    *)
(* collect_hdf5_ipd_summary_in_merged_occ                                   *)

\* No expander application / no lookup in progress
NoExt ==
    [key |-> IpdSummaryKey("", 0, 0), up |-> 0, down |-> 0,
     done |-> FALSE, by_extend |-> Keys(<<>>), by_ews |-> Keys(<<>>)]
NoLookup ==
    [key |-> IpdSummaryKey("", 0, 0), rows |-> <<>>, done |-> FALSE,
     by_csv |-> Found(IpdSummaryValueDefault), by_hdf5 |-> Found(IpdSummaryValueDefault)]

\* The kinetics file of the runs
KineticsFile == KineticsRows(TRUE)

\* What the command line and the occurrence file can hold
Extensions == (0..MaxExt) \cup {MaxI64 \div 2, (MaxI64 \div 2) + 1}
Widths == 1..MaxWidth
\* (chr2 is a chromosome the kinetics file does not hold, "." a strand
\* character that is neither + nor -)
OccStarts == {MinI64, 0, 99, MaxI64 - 1, MaxI64}
Occs == {MergedOcc("chr1", st, sd) : st \in OccStarts, sd \in {"+", "-"}}
            \cup {MergedOcc("chr2", 0, "-"), MergedOcc("chr1", 0, ".")}

\* A Vec holds at most isize::MAX bytes, so never more than that many elements.
VecCapacity == MaxI64

\* Mutant: only the doubling is checked, not the addition of the width.
RegionFits_mul_only(region_extension, width) ==
    IsSome(checked_mul(region_extension, 2))

\* main: region_extension.checked_mul(2)?.checked_add(occ_width)?
RegionFits(region_extension, width) ==
    LET doubled == checked_mul(region_extension, 2)
    IN  IsSome(doubled) /\ IsSome(checked_add(Unwrap(doubled), width))

\* Mutant: the empty case creates the file and writes nothing.
EmptyOccOutput_nothing == <<>>

\* The empty-occurrence branch: write_all(HEADER), write_all("\n")
EmptyOccOutput == <<HeaderLine(HEADER)>>

\* The lookup of the selected backend
Lookup(key) ==
    IF backend = "csv" THEN Found(CsvLookup(kinetics, key))
    ELSE Hdf5Lookup(kinetics, key)

\* Mutant: the window runs to key(+width+extension), one position further
\* than in the closure.
TargetKeys_long(occ) ==
    LET target_key == FromMergedOcc(occ)
        down == Unchecked(occ_extension + occ_width)
        pre_target_keys ==
            extend_without_strand(target_key.key, occ_extension, Unwrap(down))
    IN  IF ~target_key.ok THEN Panic(target_key.msg)
        ELSE IF ~IsSome(down) THEN Panic(<<"arithmetic overflow", occ_extension>>)
        ELSE IF ~pre_target_keys.ok THEN pre_target_keys
        ELSE IF target_key.key.strand = 0 THEN pre_target_keys
        ELSE Keys(Reverse(pre_target_keys.keys))

\* let target_key = ...; let pre_target_keys = ...; let target_keys = ...:
\* the keys of the occurrence in emission order, or the panic that ends the run
TargetKeys(occ) ==
    LET target_key == FromMergedOcc(occ)
        ew == Unchecked(occ_extension + occ_width)
        down == IF IsSome(ew) THEN Unchecked(Unwrap(ew) - 1) ELSE None
        pre_target_keys ==
            extend_without_strand(target_key.key, occ_extension, Unwrap(down))
    IN  IF ~target_key.ok THEN Panic(target_key.msg)
        ELSE IF ~IsSome(down) THEN Panic(<<"arithmetic overflow", occ_extension>>)
        ELSE IF ~pre_target_keys.ok THEN pre_target_keys
        ELSE IF target_key.key.strand = 0 THEN pre_target_keys
        ELSE Keys(Reverse(pre_target_keys.keys))

RowsOk(rs) == [ok |-> TRUE, msg |-> <<>>, rows |-> rs]
RowsPanic(m) == [ok |-> FALSE, msg |-> m, rows |-> <<>>]

\* target_keys.enumerate().map(..).collect::<Vec<_>>() and the length
\* assertion: the rows of occurrence number idx (0-based), or the panic
TargetVals(idx, keys) ==
    LET n == Len(keys)
        val(j) == Lookup(keys[j + 1])
        new(j) == TargetIpdRichNew((j \div 2) + 1,
                                   IF j % 2 = 0 THEN "+" ELSE "-",
                                   idx + 1, occ_width, occ_extension,
                                   keys[j + 1], val(j).val)
        built == IF n <= VecCapacity THEN n ELSE VecCapacity
        bad == {j \in 0..(built - 1) : ~val(j).ok \/ ~new(j).ok}
        first_bad == CHOOSE j \in bad : \A k \in bad : j <= k
        e2 == Unchecked(occ_extension * 2)
        e2w == IF IsSome(e2) THEN Unchecked(Unwrap(e2) + occ_width) ELSE None
        expected == IF IsSome(e2w) THEN Unchecked(Unwrap(e2w) * 2) ELSE None
    IN  IF bad # {}
        THEN (IF ~val(first_bad).ok THEN RowsPanic(val(first_bad).msg)
              ELSE RowsPanic(new(first_bad).msg))
        ELSE IF n > VecCapacity THEN RowsPanic(<<"capacity overflow", n>>)
        ELSE IF ~IsSome(expected) THEN RowsPanic(<<"arithmetic overflow", occ_extension>>)
        ELSE IF Wrap(n) # Unwrap(expected)
        THEN RowsPanic(<<"Unexpected length of results for a motif occ", n>>)
        ELSE RowsOk([j \in 1..n |-> new(j - 1).row])

\* Mutant: the rows of an occurrence are put in front of the rows already
\* written (after the header line) instead of after them.
Serialize_front(out, rows) ==
    LET lines == [j \in 1..Len(rows) |-> RowLine(rows[j])]
    IN  IF out = <<>> THEN (IF rows # <<>> THEN <<HeaderLine(HEADER)>> ELSE <<>>) \o lines
        ELSE <<out[1]>> \o lines \o Tail(out)

\* csv::Writer::serialize: the header line goes out with the first row
Serialize(out, rows) ==
    (IF out = <<>> /\ rows # <<>> THEN <<HeaderLine(HEADER)>> ELSE out)
        \o [j \in 1..Len(rows) |-> RowLine(rows[j])]

Init ==
    /\ build \in {"debug", "release"}
    /\ backend \in {"csv", "hdf5"}
    /\ occ_width \in Widths
    /\ occ_extension \in Extensions
    /\ pc = "main"
    /\ kinetics = <<>>
    /\ pending = None
    /\ target_keys = None
    /\ i = 0
    /\ occs_read = <<>>
    /\ file_created = FALSE
    /\ output = <<>>
    /\ result = "running"
    /\ ext = NoExt
    /\ lk = NoLookup

\* main: the region-size check, then the dispatch to the backend's collect
RegionCheck ==
    /\ pc = "main"
    /\ IF RegionFits(occ_extension, occ_width)
       THEN pc' = "open" /\ result' = result
       ELSE pc' = "exit" /\ result' = "RegionOverflow"
    /\ UNCHANGED <<build, backend, occ_width, occ_extension, kinetics, pending,
                   target_keys, i, occs_read, file_created, output, ext, lk>>

\* occ_peekable.peek().is_none(): header-only output, Ok
OpenEmpty ==
    /\ pc = "open"
    /\ file_created' = TRUE
    /\ output' = EmptyOccOutput
    /\ result' = "Ok"
    /\ pc' = "exit"
    /\ UNCHANGED <<build, backend, occ_width, occ_extension, kinetics, pending,
                   target_keys, i, occs_read, ext, lk>>

\* peek() finds a first record: the kinetics are loaded and the writer created
OpenFirst ==
    /\ pc = "open"
    /\ \E occ \in Occs : pending' = Some(occ)
    /\ kinetics' = IF backend = "csv" THEN CollectKinetics(KineticsFile)
                   ELSE EquivalentHdf5(KineticsFile)
    /\ file_created' = TRUE
    /\ pc' = "loop"
    /\ UNCHANGED <<build, backend, occ_width, occ_extension, target_keys, i,
                   occs_read, output, result, ext, lk>>

\* The flat_map closure up to target_keys: the window of the pending
\* occurrence is expanded, or the run panics.
ExpandWindow ==
    /\ pc = "loop"
    /\ IsSome(pending)
    /\ target_keys = None
    /\ \E expanded \in {TargetKeys(Unwrap(pending))} :
          IF expanded.ok
          THEN /\ target_keys' = Some(expanded.keys)
               /\ UNCHANGED <<pc, result>>
          ELSE /\ result' = expanded.msg[1]
               /\ pc' = "exit"
               /\ UNCHANGED target_keys
    /\ occs_read' = Append(occs_read, Unwrap(pending))
    /\ UNCHANGED <<build, backend, occ_width, occ_extension, kinetics, pending, i,
                   file_created, output, ext, lk>>

\* The rest of the closure and the writer loop over its rows: every key is
\* looked up and assembled, the length is asserted and the rows are serialised,
\* or the run panics.
AssembleRows ==
    /\ pc = "loop"
    /\ IsSome(target_keys)
    /\ \E vals \in {TargetVals(i, Unwrap(target_keys))} :
          IF vals.ok
          THEN /\ output' = Serialize(output, vals.rows)
               /\ i' = i + 1
               /\ pending' = None
               /\ target_keys' = None
               /\ UNCHANGED <<pc, result>>
          ELSE /\ result' = vals.msg[1]
               /\ pc' = "exit"
               /\ UNCHANGED <<output, i, pending, target_keys>>
    /\ UNCHANGED <<build, backend, occ_width, occ_extension, kinetics, occs_read,
                   file_created, ext, lk>>

\* The reader yields the next record of the occurrence file
ReadNext ==
    /\ pc = "loop"
    /\ pending = None
    /\ i < MaxOccs
    /\ \E occ \in Occs : pending' = Some(occ)
    /\ UNCHANGED <<build, backend, occ_width, occ_extension, pc, kinetics,
                   target_keys, i, occs_read, file_created, output, result, ext, lk>>

\* The reader is at the end of the file: flush, Ok
Finish ==
    /\ pc = "loop"
    /\ pending = None
    /\ result' = "Ok"
    /\ pc' = "exit"
    /\ UNCHANGED <<build, backend, occ_width, occ_extension, kinetics, pending,
                   target_keys, i, occs_read, file_created, output, ext, lk>>

Next ==
    \/ RegionCheck
    \/ OpenEmpty
    \/ OpenFirst
    \/ ExpandWindow
    \/ AssembleRows
    \/ ReadNext
    \/ Finish

Spec == Init /\ [][Next]_vars

----------------------------------------------------------------------------
(* One application of the two expanders to the same key and lengths *)

ExtTpls == {MinI64, MinI64 + 1, 0, 1, 100, MaxI64 - 1, MaxI64}
ExtLens == 0..MaxUp

PipelineIdle ==
    /\ backend = "csv" /\ occ_width = 1 /\ occ_extension = 0
    /\ pc = "idle" /\ kinetics = <<>> /\ pending = None /\ target_keys = None
    /\ i = 0 /\ occs_read = <<>>
    /\ file_created = FALSE /\ output = <<>> /\ result = "running"

InitExtend ==
    /\ build \in {"debug", "release"}
    /\ PipelineIdle
    /\ lk = NoLookup
    /\ \E tpl \in ExtTpls, strand \in {0, 1}, up \in ExtLens, down \in ExtLens :
          ext = [NoExt EXCEPT !.key = IpdSummaryKey("chrX", tpl, strand),
                                !.up = up, !.down = down]

\* tests::key_extend1 .. key_extend_without_strand1neg: collect both expansions
ApplyExtend ==
    /\ ~ext.done
    /\ ext' = [ext EXCEPT !.done = TRUE,
                          !.by_extend = extend(ext.key, ext.up, ext.down),
                          !.by_ews = extend_without_strand(ext.key, ext.up, ext.down)]
    /\ UNCHANGED <<build, lk>>
    /\ UNCHANGED pipeline_vars

NextExtend == ApplyExtend

SpecExtend == InitExtend /\ [][NextExtend]_vars

----------------------------------------------------------------------------
(* One lookup of the same key through both backends over equivalent data *)

LookupTpls ==
    {MinI64, MinI64 + 1, MinI64 + 2, -1, 0} \cup (1..(MaxTpl + 1))
        \cup {(MaxI64 \div 2) + 1, (MaxI64 \div 2) + 2, MaxI64}

InitLookup ==
    /\ build \in {"debug", "release"}
    /\ PipelineIdle
    /\ ext = NoExt
    /\ \E refName \in {"chr1", "chr2"}, tpl \in LookupTpls, strand \in {0, 1},
          zero_cov_row \in BOOLEAN :
          lk = [NoLookup EXCEPT !.key = IpdSummaryKey(refName, tpl, strand),
                                !.rows = KineticsRows(zero_cov_row)]

\* kinetics.get(&key).unwrap_or(..) and chr_kinetics.get_ipd_summary_value(&key)
ApplyLookup ==
    /\ ~lk.done
    /\ lk' = [lk EXCEPT !.done = TRUE,
                        !.by_csv = Found(CsvLookup(CollectKinetics(lk.rows), lk.key)),
                        !.by_hdf5 = Hdf5Lookup(EquivalentHdf5(lk.rows), lk.key)]
    /\ UNCHANGED <<build, ext>>
    /\ UNCHANGED pipeline_vars

NextLookup == ApplyLookup

SpecLookup == InitLookup /\ [][NextLookup]_vars

----------------------------------------------------------------------------
(* Properties *)

\* The data rows written so far, and those of occurrence number k (1-based)
DataRows == SelectSeq(output, LAMBDA l : l.kind = "row")
RowsOfSrc(k) == SelectSeq(DataRows, LAMBDA l : l.row.src = k)
WindowLength == 2 * occ_extension + occ_width

\* C1 as stated: with no overflow, extend(up, down) equals
\* extend_without_strand(up, down) on the plus strand and its reverse on the
\* minus strand.
C1_Original ==
    (ext.done /\ ext.by_extend.ok /\ ext.by_ews.ok) =>
        /\ ext.key.strand = 0 => ext.by_extend.keys = ext.by_ews.keys
        /\ ext.key.strand = 1 => ext.by_extend.keys = Reverse(ext.by_ews.keys)

\* C1 amended: whenever extend(up, down) does not overflow, it equals
\* extend_without_strand(up, down) on the plus strand, and on the minus strand
\* the reverse of extend_without_strand(down, up), the lengths swapped; so it is
\* the reverse of extend_without_strand(up, down) when up = down.
C1_ExtendSwapsOnMinus ==
    (ext.done /\ ext.by_extend.ok) =>
        /\ ext.key.strand = 0 => ext.by_extend = ext.by_ews
        /\ ext.key.strand = 1 =>
              ext.by_extend.keys =
                  Reverse(extend_without_strand(ext.key, ext.down, ext.up).keys)
        /\ (ext.key.strand = 1 /\ ext.up = ext.down) =>
              /\ ext.by_ews.ok
              /\ ext.by_extend.keys = Reverse(ext.by_ews.keys)

\* C1 witness: the case of tests::key_extend1neg, a minus-strand key extended
\* by (1, 2) into a non-empty sequence.
C1_Witness ==
    /\ ext.done /\ ext.by_extend.ok /\ ext.by_ews.ok
    /\ ext.key.strand = 1 /\ ext.key.tpl = 100 /\ ext.up = 1 /\ ext.down = 2
    /\ Len(ext.by_extend.keys) = 8

\* C2: every expanded window holds exactly (2e + w) * 2 keys, every processed
\* occurrence has contributed that many rows, and the length assertion never
\* ends a run.
C2_WindowLength ==
    /\ result # "Unexpected length of results for a motif occ"
    /\ IsSome(target_keys) => Len(Unwrap(target_keys)) = WindowLength * 2
    /\ \A k \in 1..i :
          Cardinality({j \in 1..Len(output) :
                          output[j].kind = "row" /\ output[j].row.src = k})
              = WindowLength * 2

\* C2 witness: a minus-strand occurrence expanded with a positive extension.
C2_Witness ==
    /\ IsSome(target_keys) /\ IsSome(pending)
    /\ Unwrap(pending).strand = "-"
    /\ occ_extension >= 1
    /\ Len(Unwrap(target_keys)) = WindowLength * 2

\* C3 as stated: the rows of a processed occurrence (chr, start, strand) are
\* read from exactly the positions start+1-e .. start+e+w of chr, each twice,
\* the row of relative position p from start+1-e+(p-1) on '+' and from
\* start+e+w-(p-1) on '-'.
C3_AbsolutePositions ==
    \A k \in 1..i :
        LET occ == occs_read[k]
            rows == RowsOfSrc(k)
            first == occ.start + 1 - occ_extension
            last == occ.start + occ_extension + occ_width
        IN  /\ \A j \in 1..Len(rows) :
                  /\ rows[j].row.ref_chr = occ.refName
                  /\ rows[j].row.ref_position =
                        IF occ.strand = "+" THEN first + (rows[j].row.position - 1)
                        ELSE last - (rows[j].row.position - 1)
            /\ \A q \in first..last :
                  Cardinality({j \in 1..Len(rows) : rows[j].row.ref_position = q}) = 2

\* The classification C4 states for relative offset p: part code and relative
\* position
C4_Part(p) ==
    IF p <= occ_extension THEN "s"
    ELSE IF p <= occ_extension + occ_width THEN "m"
    ELSE "e"
C4_Relative(p) ==
    IF p <= occ_extension THEN p
    ELSE IF p <= occ_extension + occ_width THEN p - occ_extension
    ELSE p - occ_extension - occ_width
C4_PartLength(part) == IF part = "m" THEN occ_width ELSE occ_extension

\* C4: the label of every row is part code + relative position + strand
\* code, the part being s on [1, e], m on (e, e+w] and e on (e+w, 2e+w]; its
\* relative position is at least 1 and at most the length of its part.
C4_Labels ==
    \A j \in 1..Len(output) :
      output[j].kind = "row" =>
        LET r == output[j].row
            code == IF r.strand = "+" THEN "p" ELSE "m"
        IN  /\ r.position \in 1..WindowLength
            /\ r.label = C4_Part(r.position) \o I64ToString(C4_Relative(r.position))
                             \o code
            /\ C4_Relative(r.position) \in 1..C4_PartLength(C4_Part(r.position))

\* C4 witness: rows labelled in all three parts on both observation strands.
C4_Witness ==
    /\ occ_extension >= 1
    /\ {"s1p", "s1m", "m1p", "m1m", "e1p", "e1m"}
           \subseteq {DataRows[j].row.label : j \in 1..Len(DataRows)}

\* Whether a label is the part code `part`, a relative position and a strand
\* code. Labels of different part codes differ in their first character.
HasPart(label, part) ==
    \E n \in 0..WindowLength, c \in {"p", "m"} :
        label = part \o I64ToString(n) \o c

\* C5: in every row the region name agrees with the part code of the label:
\* s with "Upstream", m with "Target", e with "Downstream".
C5_RegionMatchesLabel ==
    \A j \in 1..Len(output) :
        output[j].kind = "row" =>
            LET r == output[j].row
            IN  CASE r.region = "Upstream" -> HasPart(r.label, "s")
                  [] r.region = "Target" -> HasPart(r.label, "m")
                  [] r.region = "Downstream" -> HasPart(r.label, "e")
                  [] OTHER -> FALSE

\* C5 witness: rows of all three regions have been written.
C5_Witness ==
    {"Upstream", "Target", "Downstream"}
        \subseteq {DataRows[j].row.region : j \in 1..Len(DataRows)}

\* The offset of a key in the columnar arrays, (position - 1) * 2 + strand
Offset(key) == (key.tpl - 1) * 2 + key.strand

\* C6 as stated: the lookup of either backend never fails, and gives the
\* all-default record when the key is not in the row map, the chromosome is not
\* in the dataset, the offset is out of range or the stored coverage is zero.
C6_LookupTotal ==
    lk.done =>
        LET map == CollectKinetics(lk.rows)
            datasets == EquivalentHdf5(lk.rows)
            missing ==
                \/ lk.key.refName \notin DOMAIN datasets
                \/ Offset(lk.key) \notin 0..(Len(datasets[lk.key.refName].coverage) - 1)
                \/ datasets[lk.key.refName].coverage[Offset(lk.key) + 1] = 0
        IN  /\ lk.by_csv.ok
            /\ lk.by_hdf5.ok
            /\ lk.key \notin DOMAIN map => lk.by_csv.val = IpdSummaryValueDefault
            /\ missing => lk.by_hdf5.val = IpdSummaryValueDefault

\* C7 as stated: over equivalent data both backends return identical records
\* for every key. It is stated here on the keys whose offset the columnar
\* backend computes without overflow; what happens to the others is C6's.
C7_BackendsAgree ==
    (/\ lk.done /\ lk.by_csv.ok /\ lk.by_hdf5.ok
     /\ InI64(lk.key.tpl - 1) /\ InI64((lk.key.tpl - 1) * 2) /\ InI64(Offset(lk.key)))
        => lk.by_csv.val = lk.by_hdf5.val

\* C8: when extension*2 + width does not fit, the run ends with
\* RegionOverflow having read no occurrence and produced no output; when it
\* fits, RegionOverflow is never reported.
C8_RegionOverflow ==
    /\ pc = "main" =>
          result = "running" /\ output = <<>> /\ ~file_created /\ occs_read = <<>>
    /\ (pc # "main" /\ ~InI64(2 * occ_extension + occ_width)) =>
          /\ pc = "exit" /\ result = "RegionOverflow"
          /\ pending = None /\ occs_read = <<>> /\ i = 0
          /\ ~file_created /\ output = <<>>
    /\ InI64(2 * occ_extension + occ_width) => result # "RegionOverflow"

\* C8 witness: extension = i64::MAX / 2 with a width that no longer fits.
C8_Witness ==
    /\ result = "RegionOverflow"
    /\ occ_extension = MaxI64 \div 2
    /\ IsSome(checked_mul(occ_extension, 2))

\* C9 as stated: every position of an expanded key is the exact value,
\* within start+1-e .. start+e+w of its occurrence, never a wrapped one.
C9_NoSilentWrap ==
    IsSome(target_keys) =>
        LET occ == Unwrap(pending)
            keys == Unwrap(target_keys)
        IN  \A j \in 1..Len(keys) :
                keys[j].tpl \in (occ.start + 1 - occ_extension)
                                    ..(occ.start + occ_extension + occ_width)

\* C10: a run that finds the occurrence list empty ends Ok with an output of
\* exactly one line, the header of 15 column names, and no data row.
C10_HeaderOnly ==
    (pc = "exit" /\ occs_read = <<>> /\ pending = None /\ result # "RegionOverflow") =>
        /\ result = "Ok"
        /\ file_created
        /\ Len(output) = 1
        /\ output[1].kind = "header"
        /\ Len(output[1].cols) = 15
        /\ output[1].cols[1] = "position" /\ output[1].cols[15] = "region"
        /\ DataRows = <<>>

\* C10 witness: the HDF5 backend has ended on an empty occurrence list.
C10_Witness ==
    /\ pc = "exit" /\ result = "Ok" /\ occs_read = <<>> /\ pending = None
    /\ backend = "hdf5"
    /\ Len(output) = 1

\* The number of rows of one occurrence, 2 * (2e + w)
RowsPerOcc == 2 * WindowLength

\* The data rows of the file are i blocks of RowsPerOcc rows: the row at
\* 0-based distance d from the first data row carries src = floor(d / RowsPerOcc)
\* + 1 and, being row j = d mod RowsPerOcc of its occurrence, relative position
\* floor(j / 2) + 1; it is read from the chromosome of the src-th occurrence read.
C11_Blocks ==
    /\ \/ i = 0 /\ \A j \in 1..Len(output) : output[j].kind = "header"
       \/ Len(output) = 1 + i * RowsPerOcc /\ output[1].kind = "header"
    /\ \A j \in 2..Len(output) :
          LET d == j - 2
              r == output[j].row
          IN  /\ output[j].kind = "row"
              /\ r.src = (d \div RowsPerOcc) + 1
              /\ r.position = ((d % RowsPerOcc) \div 2) + 1
              /\ r.position \in 1..WindowLength
              /\ r.ref_chr = occs_read[r.src].refName
              /\ j > 2 => /\ output[j - 1].row.src <= r.src
                          /\ (output[j - 1].row.src = r.src
                                 => output[j - 1].row.position <= r.position)

\* What is written is never taken back or moved: a step leaves the lines
\* already written in place and puts whole occurrences behind them.
C11_Appended ==
    /\ Len(output') >= Len(output)
    /\ SubSeq(output', 1, Len(output)) = output
    /\ (Len(output') - Len(output)) \in {0, 1, RowsPerOcc, 1 + RowsPerOcc}

\* C11: rows are appended occurrence by occurrence in input order: at every
\* step the file only grows at its end, the src values written so far are
\* non-decreasing, the k-th occurrence contributes exactly 2 * (2e + w)
\* consecutive rows of src = k, never interleaved with another occurrence's, and
\* row j (0-based) of an occurrence has relative position floor(j / 2) + 1.
C11_InputOrder == [][C11_Appended /\ C11_Blocks']_vars

\* C11 witness: two occurrences of different chromosomes written one after the
\* other with a positive extension.
C11_Witness ==
    /\ i = 2 /\ occ_extension >= 1
    /\ occs_read[1].refName # occs_read[2].refName
    /\ Len(output) = 1 + 2 * RowsPerOcc
    /\ output[Len(output)].row.src = 2
    /\ output[2].row.src = 1

\* The panics of create_label and create_region that C12 calls unreachable
LabelingPanics ==
    {"Position is smaller than 1",
     "Position is larger than the target region length",
     "Unknown strand", "Unknown region part name"}

\* C12: in a run that has passed the region-size check (w >= 1, e >= 0), every
\* relative offset p = floor(j / 2) + 1 that the closure hands to create_label
\* and create_region for the expanded window lies in 1..2e+w and falls into one
\* of the three parts, the strand handed over is + or -, and no run ends in a
\* labeling panic.
C12_LabelingUnreachable ==
    /\ result \notin LabelingPanics
    /\ IsSome(target_keys) =>
          \A j \in 0..(Len(Unwrap(target_keys)) - 1) :
              LET p == (j \div 2) + 1
              IN  /\ 1 <= p /\ p <= WindowLength
                  /\ MatchPart(p, occ_width, occ_extension) \in {"s", "m", "e"}
    /\ \A j \in 2..Len(output) :
          /\ output[j].row.strand \in {"+", "-"}
          /\ output[j].row.position \in 1..WindowLength

\* C12 witness: an occurrence was labelled from the first offset to the last,
\* 2e+w, with a positive extension, and the next window is expanded.
C12_Witness ==
    /\ i >= 1 /\ occ_extension >= 1 /\ IsSome(target_keys)
    /\ output[2].row.position = 1
    /\ output[Len(output)].row.position = WindowLength
    /\ output[Len(output)].row.region = "Downstream"

\* The strand code of an occurrence: 0 for '+', 1 for '-'
StrandCode(occ) == IF occ.strand = "+" THEN 0 ELSE 1

\* C13: the strand column is relative to the occurrence: in every row, strand
\* is '+' exactly when ref_strand is the strand code of the source occurrence
\* and '-' exactly when it is the opposite code; the two rows of one relative
\* position are read from one absolute position, on its two strands.
C13_RelativeStrand ==
    \A j \in 2..Len(output) :
        LET r == output[j].row
            code == StrandCode(occs_read[r.src])
        IN  /\ r.strand = "+" <=> r.ref_strand = code
            /\ r.strand = "-" <=> r.ref_strand = 1 - code
            /\ (j % 2 = 0) =>
                  /\ j + 1 <= Len(output)
                  /\ output[j + 1].row.src = r.src
                  /\ output[j + 1].row.position = r.position
                  /\ output[j + 1].row.ref_chr = r.ref_chr
                  /\ output[j + 1].row.ref_position = r.ref_position
                  /\ output[j + 1].row.ref_strand = 1 - r.ref_strand
                  /\ r.strand = "+" /\ output[j + 1].row.strand = "-"

\* C13 witness: a minus-strand occurrence followed by a plus-strand one, the
\* first row of each marked '+' and read from reference strand 1 and 0.
C13_Witness ==
    /\ i = 2
    /\ occs_read[1].strand = "-" /\ occs_read[2].strand = "+"
    /\ output[2].row.strand = "+" /\ output[2].row.ref_strand = 1
    /\ output[2 + RowsPerOcc].row.strand = "+"
    /\ output[2 + RowsPerOcc].row.ref_strand = 0

====
